---- MODULE Spec2Model ----
(***************************************************************************)
(* Model of tracker.py, the Smartwatch Health Tracker Streamlit script:     *)
(* the four functions detect_anomalies, provide_recommendations, plot_data  *)
(* and create_pdf_report, and the top-level script that reads an uploaded   *)
(* CSV file, checks its columns and runs the four functions in sequence.    *)
(*                                                                         *)
(* A DataFrame is a record [columns, rows]; a row is a function from the    *)
(* column names (and "index", the row's label in the frame's index) to the  *)
(* cell values.  The PDF is modelled by the list of flowables handed to     *)
(* doc.build, the PNG by the axes and lines of the figure saved into it.    *)
(***************************************************************************)
EXTENDS Integers, Sequences, FiniteSets, TLC

(* ---------------------------------------------------------------- bounds *)
MaxRows == 2      \* rows of an uploaded CSV file
MaxFnRows == 3    \* rows of a frame handed directly to detect_anomalies or provide_recommendations
MaxTableRows == 2 \* rows of the anomaly frame handed directly to create_pdf_report
MaxRecs == 2      \* length of an advisory list handed directly to create_pdf_report
MaxRuns == 2      \* script runs (reruns of the Streamlit script) in a session

(* ------------------------------------------------------------ csv values *)
\* A cell of a column that pd.read_csv could not parse as a number (the
\* column then has dtype object and its cells are str).
NonNumeric == -1

required_columns ==
    {"Date", "Steps", "Heart Rate (bpm)", "Calories Burned", "Sleep Duration (hours)"}

DateValues     == {1, 2}
StepsValues    == {500, 1000}
HeartValues    == {72, 100, 101}
CaloriesValues == {1800}
SleepValues    == {4, 5, 7}

CsvRow(d, s, h, c, sl) ==
    [col \in required_columns |->
        CASE col = "Date" -> d
          [] col = "Steps" -> s
          [] col = "Heart Rate (bpm)" -> h
          [] col = "Calories Burned" -> c
          [] col = "Sleep Duration (hours)" -> sl]

\* The rows a CSV file of the session may hold: every combination of the
\* values above on one date, and one row whose Steps cell is text.
CsvRows ==
    {CsvRow(1, s, h, c, sl) :
        s \in StepsValues, h \in HeartValues, c \in CaloriesValues, sl \in SleepValues}
    \cup {CsvRow(1, NonNumeric, 72, 1800, 7)}

\* Rows for the direct calls of the functions: dates vary, values sit on and
\* next to the thresholds.
FnRows ==
    {CsvRow(d, s, h, 1800, sl) :
        d \in DateValues, s \in {999, 1000}, h \in {100, 101}, sl \in {4, 5}}

\* Rows of the anomaly frames handed directly to create_pdf_report.
TableRows == {CsvRow(d, s, 101, 1800, 5) : d \in DateValues, s \in {999, 1000}}

\* Header sets that lack a required column: one column missing, several
\* missing, a column spelled in another case, and a file with no header.
IncompleteColumnSets ==
    { required_columns \ {"Sleep Duration (hours)"},
      {"Date", "Steps"},
      (required_columns \ {"Steps"}) \cup {"steps"},
      {} }

Restrict(f, S) == [x \in S |-> f[x]]

SampleRow == CsvRow(1, 500, 101, 1800, 4) @@ ("steps" :> 500)

\* An uploaded CSV file, its header and its rows in file order: a file with
\* the required header, or one with an incomplete header and at most one row.
CompleteFile(rs) == [columns |-> required_columns, rows |-> rs]
IncompleteFile(cs, n) ==
    [columns |-> cs,
     rows |-> IF cs = {} THEN <<>> ELSE [i \in 1..n |-> Restrict(SampleRow, cs)]]

IsFile(f) ==
    \/ \E k \in 0..MaxRows : \E rs \in [1..k -> CsvRows] : f = CompleteFile(rs)
    \/ \E cs \in IncompleteColumnSets : \E n \in 0..1 : f = IncompleteFile(cs, n)

\* A name whose text is not well-formed paragraph markup (an unclosed tag).
MarkupNames == {"<b>"}
Names == {"Ann"} \cup MarkupNames
Ages  == {30}

(* ------------------------------------------------------------ DataFrame *)
NoFrame == [columns |-> {}, rows |-> <<>>]

\* pd.read_csv: the file's rows labelled 0, 1, ... (a RangeIndex).
read_csv(f) ==
    [columns |-> f.columns,
     rows |-> [i \in 1..Len(f.rows) |-> f.rows[i] @@ ("index" :> (i - 1))]]

\* data[col]: the column as a series, in row order.
Column(df, col) == [i \in 1..Len(df.rows) |-> df.rows[i][col]]

\* series > k and series < k, elementwise.
SeriesGt(s, k) == [i \in DOMAIN s |-> s[i] > k]
SeriesLt(s, k) == [i \in DOMAIN s |-> s[i] < k]

\* mask | mask, elementwise.
MaskOr(a, b) == [i \in DOMAIN a |-> a[i] \/ b[i]]

\* mask.any()
SeriesAny(mask) == \E i \in DOMAIN mask : mask[i]

\* data[mask]: a new frame holding the rows whose mask entry is True, with
\* their labels, in frame order.
BooleanIndex(df, mask) ==
    LET F[i \in 0..Len(df.rows)] ==
            IF i = 0 THEN <<>>
            ELSE IF mask[i] THEN Append(F[i - 1], df.rows[i]) ELSE F[i - 1]
    IN [columns |-> df.columns, rows |-> F[Len(df.rows)]]

\* df.empty
Empty(df) == Len(df.rows) = 0 \/ df.columns = {}

\* Comparing a str cell with an int raises TypeError.
CompareRaises(df) ==
    \E i \in 1..Len(df.rows) :
        \E col \in {"Heart Rate (bpm)", "Steps", "Sleep Duration (hours)"} :
            df.rows[i][col] = NonNumeric

\* data[col] raises KeyError when the frame has no such column; the three
\* comparisons of detect_anomalies raise one of the two errors or none.
detect_raises(df) ==
    \/ \E col \in {"Heart Rate (bpm)", "Steps", "Sleep Duration (hours)"} :
            col \notin df.columns
    \/ CompareRaises(df)

(* ------------------------------------------------------ detect_anomalies *)
\* Variant: the heart-rate comparison is not strict.
detect_anomalies_ge(data) ==
    BooleanIndex(data,
        MaskOr(MaskOr([i \in 1..Len(data.rows) |-> data.rows[i]["Heart Rate (bpm)"] >= 100],
                      SeriesLt(Column(data, "Steps"), 1000)),
               SeriesLt(Column(data, "Sleep Duration (hours)"), 5)))

\* Variant: the sleep comparison is left out of the mask.
detect_anomalies_no_sleep(data) ==
    BooleanIndex(data,
        MaskOr(SeriesGt(Column(data, "Heart Rate (bpm)"), 100),
               SeriesLt(Column(data, "Steps"), 1000)))

\* Variant: the three filters are applied one by one and concatenated.
detect_anomalies_concat(data) ==
    [columns |-> data.columns,
     rows |-> BooleanIndex(data, SeriesGt(Column(data, "Heart Rate (bpm)"), 100)).rows
              \o BooleanIndex(data, SeriesLt(Column(data, "Steps"), 1000)).rows
              \o BooleanIndex(data, SeriesLt(Column(data, "Sleep Duration (hours)"), 5)).rows]

detect_anomalies(data) ==
    BooleanIndex(data,
        MaskOr(MaskOr(SeriesGt(Column(data, "Heart Rate (bpm)"), 100),
                      SeriesLt(Column(data, "Steps"), 1000)),
               SeriesLt(Column(data, "Sleep Duration (hours)"), 5)))

(* ----------------------------------------------- provide_recommendations *)
HeartAdvisory == "Consider consulting a doctor about high heart rate readings."
StepsAdvisory == "Increase daily steps to at least 1000 for better health."
SleepAdvisory == "Ensure to get at least 5-7 hours of sleep daily."
Fallback      == "No anomalies detected. Keep up the good work!"

\* Variant: advisories are appended row by row instead of once per subset.
provide_recommendations_per_row(anomalies) ==
    IF ~Empty(anomalies)
    THEN LET F[i \in 0..Len(anomalies.rows)] ==
                IF i = 0 THEN <<>>
                ELSE LET row == anomalies.rows[i] IN
                     F[i - 1]
                     \o (IF row["Heart Rate (bpm)"] > 100 THEN <<HeartAdvisory>> ELSE <<>>)
                     \o (IF row["Steps"] < 1000 THEN <<StepsAdvisory>> ELSE <<>>)
                     \o (IF row["Sleep Duration (hours)"] < 5 THEN <<SleepAdvisory>> ELSE <<>>)
         IN F[Len(anomalies.rows)]
    ELSE <<Fallback>>

\* Variant: the else branch is missing, an empty subset gives an empty list.
provide_recommendations_no_fallback(anomalies) ==
    LET r1 == IF SeriesAny(SeriesGt(Column(anomalies, "Heart Rate (bpm)"), 100))
              THEN <<HeartAdvisory>> ELSE <<>>
        r2 == IF SeriesAny(SeriesLt(Column(anomalies, "Steps"), 1000))
              THEN Append(r1, StepsAdvisory) ELSE r1
        r3 == IF SeriesAny(SeriesLt(Column(anomalies, "Sleep Duration (hours)"), 5))
              THEN Append(r2, SleepAdvisory) ELSE r2
    IN r3

provide_recommendations(anomalies) ==
    IF ~Empty(anomalies)
    THEN LET r1 == IF SeriesAny(SeriesGt(Column(anomalies, "Heart Rate (bpm)"), 100))
                   THEN <<HeartAdvisory>> ELSE <<>>
             r2 == IF SeriesAny(SeriesLt(Column(anomalies, "Steps"), 1000))
                   THEN Append(r1, StepsAdvisory) ELSE r1
             r3 == IF SeriesAny(SeriesLt(Column(anomalies, "Sleep Duration (hours)"), 5))
                   THEN Append(r2, SleepAdvisory) ELSE r2
         IN r3
    ELSE <<Fallback>>

(* -------------------------------------------------------------- plot_data *)
\* One subplot: its title and the line drawn on it.
Subplot(data, title, col) ==
    [title |-> title, lines |-> <<[x |-> Column(data, "Date"), y |-> Column(data, col)]>>]

\* plt.figure(...) followed by the four subplot/plot/title calls: a new
\* figure with four axes, one line each.
NewFigure(data) ==
    << Subplot(data, "Steps Over Time", "Steps"),
       Subplot(data, "Heart Rate Over Time", "Heart Rate (bpm)"),
       Subplot(data, "Calories Burned Over Time", "Calories Burned"),
       Subplot(data, "Sleep Duration Over Time", "Sleep Duration (hours)") >>

\* pyplot's figure list after plot_data: the new figure is added and is the
\* current one; figures of earlier calls are never closed.
plot_data_figures(figs, data) == Append(figs, NewFigure(data))

\* Variant: plt.figure() is not called, the lines are drawn on the figure
\* that is current when one exists.
plot_data_reuse(figs, data) ==
    IF figs = <<>> THEN [png |-> NewFigure(data)]
    ELSE [png |-> [k \in 1..4 |->
                     [title |-> NewFigure(data)[k].title,
                      lines |-> figs[Len(figs)][k].lines \o NewFigure(data)[k].lines]]]

\* plt.savefig(buf): the PNG of the current figure.
plot_data(figs, data) ==
    LET after == plot_data_figures(figs, data) IN [png |-> after[Len(after)]]

NoImage == [png |-> <<>>]

(* ------------------------------------------------------ create_pdf_report *)
Paragraph(text, style) == <<"Paragraph", text, style>>
Table(cells)           == <<"Table", cells>>
Image(buf)             == <<"Image", buf>>

TableHeader == <<"Date", "Steps", "Heart Rate (bpm)", "Calories Burned", "Sleep Duration (hours)">>

\* for _, row in anomalies.iterrows(): anomaly_data.append([...])
anomaly_rows(anomalies) ==
    [i \in 1..Len(anomalies.rows) |->
        LET row == anomalies.rows[i] IN
        << row["Date"], row["Steps"], row["Heart Rate (bpm)"],
           row["Calories Burned"], row["Sleep Duration (hours)"] >>]

TitleText(name, age) == "Health Report for " \o name \o ", Age: " \o ToString(age)

\* Paragraph(...) raises ValueError when its text is not well-formed markup.
ParagraphRaises(name) == name \in MarkupNames

\* Variant: the chart is appended before the recommendations section.
create_pdf_report_image_first(name, age, data, anomalies, recommendations, plot_image_buf) ==
    << <<"Paragraph", "Health Report for " \o name \o ", Age: " \o ToString(age), "Title">>,
       <<"Paragraph", "Data Summary:", "Heading2">>,
       <<"Paragraph", "Anomalies Detected:", "Heading3">>,
       <<"Table", <<TableHeader>> \o anomaly_rows(anomalies)>>,
       <<"Image", plot_image_buf>>,
       <<"Paragraph", "Recommendations:", "Heading2">> >>
    \o [i \in 1..Len(recommendations) |-> <<"Paragraph", "- " \o recommendations[i], "Normal">>]

\* The flowables handed to doc.build, in order.
create_pdf_report(name, age, data, anomalies, recommendations, plot_image_buf) ==
    << Paragraph(TitleText(name, age), "Title"),
       Paragraph("Data Summary:", "Heading2"),
       Paragraph("Anomalies Detected:", "Heading3"),
       Table(<<TableHeader>> \o anomaly_rows(anomalies)) >>
    \o << Paragraph("Recommendations:", "Heading2") >>
    \o [i \in 1..Len(recommendations) |-> Paragraph("- " \o recommendations[i], "Normal")]
    \o << Image(plot_image_buf) >>

(* ------------------------------------------------------------------ state *)
VARIABLES
    file,             \* the CSV file the user uploads in this session
    name, age,        \* the text_input and number_input values
    uploaded_file,    \* TRUE once st.file_uploader holds the file
    pc,               \* position of the script
    data,             \* script variables, unset (empty) until assigned
    anomalies,
    recommendations,
    plot_image_buf,
    pdf_buf,
    figures,          \* pyplot's open figures; module state that outlives a run
    screen,           \* what the run has shown so far, in order
    runs,             \* script runs started so far
    calls,            \* history: the functions called in this run, in order
    checks,           \* history: evaluations of the column check in this run
    loaded,           \* history: the frame as pd.read_csv returned it
    prev,             \* history: the results of the last run that offered a report
    fn_call,          \* a direct call of one function: the function and its arguments
    fn_ret            \* the result of the direct call

vars == << file, name, age, uploaded_file, pc, data, anomalies, recommendations,
           plot_image_buf, pdf_buf, figures, screen, runs, calls, checks, loaded,
           prev, fn_call, fn_ret >>

inputs  == << file, name, age >>
locals  == << data, anomalies, recommendations, plot_image_buf, pdf_buf >>
fnvars  == << fn_call, fn_ret >>

NoCall == [fn |-> "none", data |-> NoFrame, recommendations |-> <<>>, name |-> "", age |-> 0]
NoRet  == [done |-> FALSE, raised |-> FALSE, frame |-> NoFrame, list |-> <<>>]

Init ==
    /\ IsFile(file)
    /\ name \in Names
    /\ age \in Ages
    /\ uploaded_file = FALSE
    /\ pc = "wait"
    /\ data = NoFrame
    /\ anomalies = NoFrame
    /\ recommendations = <<>>
    /\ plot_image_buf = NoImage
    /\ pdf_buf = <<>>
    /\ figures = <<>>
    /\ screen = <<>>
    /\ runs = 0
    /\ calls = <<>>
    /\ checks = 0
    /\ loaded = NoFrame
    /\ prev = <<>>
    /\ fn_call = NoCall
    /\ fn_ret = NoRet

(* ----------------------------------------------------------------- script *)
\* The user picks the file in the uploader.
UploadFile ==
    /\ pc = "wait"
    /\ ~uploaded_file
    /\ uploaded_file' = TRUE
    /\ UNCHANGED << inputs, pc, locals, figures, screen, runs, calls, checks, loaded,
                    prev, fnvars >>

\* A run of the script starts: a fresh namespace and a fresh page, then the
\* widgets and the test of uploaded_file.
RunScript ==
    /\ pc = "wait"
    /\ runs < MaxRuns
    /\ runs' = runs + 1
    /\ data' = NoFrame
    /\ anomalies' = NoFrame
    /\ recommendations' = <<>>
    /\ plot_image_buf' = NoImage
    /\ pdf_buf' = <<>>
    /\ screen' = <<>>
    /\ calls' = <<>>
    /\ checks' = 0
    /\ loaded' = NoFrame
    /\ pc' = IF uploaded_file THEN "read_csv" ELSE "wait"
    /\ UNCHANGED << inputs, uploaded_file, figures, prev, fnvars >>

\* An uncaught exception: Streamlit shows it and the run stops.
Abort ==
    /\ screen' = Append(screen, "exception")
    /\ pc' = "wait"

\* data = pd.read_csv(uploaded_file); st.write(data.head()).  A file with no
\* header raises EmptyDataError.
ReadCsv ==
    /\ pc = "read_csv"
    /\ IF file.columns = {}
       THEN /\ Abort
            /\ UNCHANGED << data, loaded >>
       ELSE /\ data' = read_csv(file)
            /\ loaded' = read_csv(file)
            /\ screen' = Append(screen, "preview")
            /\ pc' = "check_columns"
    /\ UNCHANGED << inputs, uploaded_file, anomalies, recommendations, plot_image_buf,
                    pdf_buf, figures, runs, calls, checks, prev, fnvars >>

\* Variant: any() in place of all().
HasRequiredColumns_any(df) == \E col \in required_columns : col \in df.columns

\* all(col in data.columns for col in required_columns)
HasRequiredColumns(df) == \A col \in required_columns : col \in df.columns

CheckColumns ==
    /\ pc = "check_columns"
    /\ checks' = checks + 1
    /\ IF ~HasRequiredColumns(data)
       THEN /\ screen' = Append(screen, "error")
            /\ pc' = "wait"
       ELSE /\ screen' = screen
            /\ pc' = "detect"
    /\ UNCHANGED << inputs, uploaded_file, locals, figures, runs, calls, loaded, prev,
                    fnvars >>

\* Variant: the filter is applied to the frame itself (data = data[mask]).
Detect_inplace ==
    /\ pc = "detect"
    /\ calls' = Append(calls, "detect_anomalies")
    /\ IF detect_raises(data)
       THEN /\ Abort
            /\ UNCHANGED << data, anomalies >>
       ELSE /\ anomalies' = detect_anomalies(data)
            /\ data' = detect_anomalies(data)
            /\ screen' = Append(screen, "anomalies")
            /\ pc' = "recommend"
    /\ UNCHANGED << inputs, uploaded_file, recommendations, plot_image_buf, pdf_buf,
                    figures, runs, checks, loaded, prev, fnvars >>

\* anomalies = detect_anomalies(data); st.write(anomalies)
Detect ==
    /\ pc = "detect"
    /\ calls' = Append(calls, "detect_anomalies")
    /\ IF detect_raises(data)
       THEN /\ Abort
            /\ UNCHANGED << data, anomalies >>
       ELSE /\ anomalies' = detect_anomalies(data)
            /\ data' = data
            /\ screen' = Append(screen, "anomalies")
            /\ pc' = "recommend"
    /\ UNCHANGED << inputs, uploaded_file, recommendations, plot_image_buf, pdf_buf,
                    figures, runs, checks, loaded, prev, fnvars >>

\* recommendations = provide_recommendations(anomalies); st.write of each
Recommend ==
    /\ pc = "recommend"
    /\ calls' = Append(calls, "provide_recommendations")
    /\ recommendations' = provide_recommendations(anomalies)
    /\ screen' = Append(screen, "recommendations")
    /\ pc' = "plot"
    /\ UNCHANGED << inputs, uploaded_file, data, anomalies, plot_image_buf, pdf_buf,
                    figures, runs, checks, loaded, prev, fnvars >>

\* plot_image_buf = plot_data(data)
Plot ==
    /\ pc = "plot"
    /\ calls' = Append(calls, "plot_data")
    /\ figures' = plot_data_figures(figures, data)
    /\ plot_image_buf' = plot_data(figures, data)
    /\ pc' = "create_pdf"
    /\ UNCHANGED << inputs, uploaded_file, data, anomalies, recommendations, pdf_buf,
                    screen, runs, checks, loaded, prev, fnvars >>

\* Variant: the exception of create_pdf_report is caught and the script goes
\* on to the download button.
CreatePdf_swallow ==
    /\ pc = "create_pdf"
    /\ calls' = Append(calls, "create_pdf_report")
    /\ pdf_buf' = IF ParagraphRaises(name) THEN <<>>
                  ELSE create_pdf_report(name, age, data, anomalies,
                                         recommendations, plot_image_buf)
    /\ screen' = screen
    /\ pc' = "download"
    /\ UNCHANGED << inputs, uploaded_file, data, anomalies, recommendations,
                    plot_image_buf, figures, runs, checks, loaded, prev, fnvars >>

\* pdf_buf = create_pdf_report(name, age, data, anomalies, recommendations,
\*                             plot_image_buf)
CreatePdf ==
    /\ pc = "create_pdf"
    /\ calls' = Append(calls, "create_pdf_report")
    /\ IF ParagraphRaises(name)
       THEN /\ Abort
            /\ UNCHANGED pdf_buf
       ELSE /\ pdf_buf' = create_pdf_report(name, age, data, anomalies,
                                            recommendations, plot_image_buf)
            /\ screen' = screen
            /\ pc' = "download"
    /\ UNCHANGED << inputs, uploaded_file, data, anomalies, recommendations,
                    plot_image_buf, figures, runs, checks, loaded, prev, fnvars >>

\* st.download_button(label="Download Report", data=pdf_buf, ...); the
\* script ends.
DownloadButton ==
    /\ pc = "download"
    /\ screen' = Append(screen, "download_button")
    /\ prev' = << [anomalies |-> anomalies, recommendations |-> recommendations,
                   plot_image_buf |-> plot_image_buf, pdf_buf |-> pdf_buf] >>
    /\ pc' = "wait"
    /\ UNCHANGED << inputs, uploaded_file, locals, figures, runs, calls, checks, loaded,
                    fnvars >>

Next ==
    \/ UploadFile
    \/ RunScript
    \/ ReadCsv
    \/ CheckColumns
    \/ Detect
    \/ Recommend
    \/ Plot
    \/ CreatePdf
    \/ DownloadButton

Spec == Init /\ [][Next]_vars

(* ------------------------------------------------- direct function calls *)
\* A second specification calls one function directly on an argument drawn
\* from a bounded set, so that the functions are exercised on frames and
\* lists the script itself never passes them.
Frame(rs) == read_csv([columns |-> required_columns, rows |-> rs])

Advisories == {HeartAdvisory, StepsAdvisory, SleepAdvisory, Fallback}

IsFnCall(c) ==
    \/ \E f \in {"detect_anomalies", "provide_recommendations"} :
          \E k \in 0..MaxFnRows : \E rs \in [1..k -> FnRows] :
             c = [fn |-> f, data |-> Frame(rs), recommendations |-> <<>>,
                  name |-> "", age |-> 0]
    \/ \E k \in 0..MaxTableRows : \E rs \in [1..k -> TableRows] :
          \E m \in 0..MaxRecs : \E recs \in [1..m -> Advisories] :
             \E n \in Names : \E a \in {0, 120} :
                c = [fn |-> "create_pdf_report", data |-> Frame(rs),
                     recommendations |-> recs, name |-> n, age |-> a]

FnInit ==
    /\ IsFnCall(fn_call)
    /\ fn_ret = NoRet
    /\ file = [columns |-> {}, rows |-> <<>>]
    /\ name = ""
    /\ age = 0
    /\ uploaded_file = FALSE
    /\ pc = "wait"
    /\ data = NoFrame
    /\ anomalies = NoFrame
    /\ recommendations = <<>>
    /\ plot_image_buf = NoImage
    /\ pdf_buf = <<>>
    /\ figures = <<>>
    /\ screen = <<>>
    /\ runs = 0
    /\ calls = <<>>
    /\ checks = 0
    /\ loaded = NoFrame
    /\ prev = <<>>

script == << inputs, uploaded_file, pc, locals, figures, screen, runs, calls, checks,
             loaded, prev >>

CallDetect ==
    /\ fn_call.fn = "detect_anomalies"
    /\ ~fn_ret.done
    /\ fn_ret' = [done |-> TRUE, raised |-> detect_raises(fn_call.data),
                  frame |-> IF detect_raises(fn_call.data) THEN NoFrame
                            ELSE detect_anomalies(fn_call.data),
                  list |-> <<>>]
    /\ UNCHANGED << fn_call, script >>

CallRecommend ==
    /\ fn_call.fn = "provide_recommendations"
    /\ ~fn_ret.done
    /\ fn_ret' = [done |-> TRUE, raised |-> detect_raises(fn_call.data),
                  frame |-> NoFrame,
                  list |-> IF detect_raises(fn_call.data) THEN <<>>
                           ELSE provide_recommendations(fn_call.data)]
    /\ UNCHANGED << fn_call, script >>

\* The frame of the call is passed as anomalies; the data parameter of
\* create_pdf_report is not used by its body.
CallCreatePdf ==
    /\ fn_call.fn = "create_pdf_report"
    /\ ~fn_ret.done
    /\ fn_ret' = [done |-> TRUE, raised |-> ParagraphRaises(fn_call.name),
                  frame |-> NoFrame,
                  list |-> IF ParagraphRaises(fn_call.name) THEN <<>>
                           ELSE create_pdf_report(fn_call.name, fn_call.age, NoFrame,
                                    fn_call.data, fn_call.recommendations,
                                    plot_data(<<>>, fn_call.data))]
    /\ UNCHANGED << fn_call, script >>

FnNext == CallDetect \/ CallRecommend \/ CallCreatePdf

FnSpec == FnInit /\ [][FnNext]_vars

(* ------------------------------------------------------------ properties *)
\* The three fixed predicates, stated on one row.
HeartHigh(r) == r["Heart Rate (bpm)"] > 100
StepsLow(r)  == r["Steps"] < 1000
SleepLow(r)  == r["Sleep Duration (hours)"] < 5
Violating(r) == HeartHigh(r) \/ StepsLow(r) \/ SleepLow(r)

RowSet(df) == {df.rows[i] : i \in 1..Len(df.rows)}
Elems(seq) == {seq[i] : i \in 1..Len(seq)}

DetectReturned == fn_call.fn = "detect_anomalies" /\ fn_ret.done /\ ~fn_ret.raised
RecommendReturned == fn_call.fn = "provide_recommendations" /\ fn_ret.done /\ ~fn_ret.raised
CreatePdfReturned == fn_call.fn = "create_pdf_report" /\ fn_ret.done /\ ~fn_ret.raised

\* C1: detect_anomalies returns exactly the rows that satisfy at least one of
\* heart rate > 100, steps < 1000, sleep < 5: every returned row satisfies one,
\* every input row that satisfies one is returned, and a row sitting on all
\* three thresholds (100, 1000, 5) is not returned.
C1_DetectExact ==
    DetectReturned =>
        /\ RowSet(fn_ret.frame) = {r \in RowSet(fn_call.data) : Violating(r)}
        /\ \A r \in RowSet(fn_ret.frame) :
              ~(r["Heart Rate (bpm)"] = 100 /\ r["Steps"] = 1000
                /\ r["Sleep Duration (hours)"] = 5)

\* A call whose input holds a row on the thresholds and a row just past the
\* heart-rate threshold; only the second is returned.
C1_Witness ==
    /\ DetectReturned
    /\ Len(fn_call.data.rows) = 2
    /\ \E r \in RowSet(fn_call.data) :
          r["Heart Rate (bpm)"] = 100 /\ r["Steps"] = 1000 /\ r["Sleep Duration (hours)"] = 5
    /\ \E r \in RowSet(fn_call.data) :
          r["Heart Rate (bpm)"] = 101 /\ r["Steps"] = 1000 /\ r["Sleep Duration (hours)"] = 5
    /\ Len(fn_ret.frame.rows) = 1

Rank(a) == CASE a = HeartAdvisory -> 1 [] a = StepsAdvisory -> 2
             [] a = SleepAdvisory -> 3 [] OTHER -> 4

\* C2: for a non-empty subset, each advisory is in the result iff some row of
\* the subset satisfies its predicate, each at most once, in the order heart
\* rate, steps, sleep, and nothing else is in the result.
C2_RecommendExistence ==
    (RecommendReturned /\ Len(fn_call.data.rows) > 0) =>
        LET rows == RowSet(fn_call.data)
            out  == fn_ret.list
        IN /\ (HeartAdvisory \in Elems(out)) <=> (\E r \in rows : HeartHigh(r))
           /\ (StepsAdvisory \in Elems(out)) <=> (\E r \in rows : StepsLow(r))
           /\ (SleepAdvisory \in Elems(out)) <=> (\E r \in rows : SleepLow(r))
           /\ Elems(out) \subseteq {HeartAdvisory, StepsAdvisory, SleepAdvisory}
           /\ \A i, j \in 1..Len(out) : i < j => Rank(out[i]) < Rank(out[j])
           /\ ((\A r \in rows : HeartHigh(r) /\ ~StepsLow(r) /\ ~SleepLow(r))
                 => out = <<HeartAdvisory>>)

\* Three rows, each violating a different single predicate, give the three
\* advisories in order.
C2_Witness ==
    /\ RecommendReturned
    /\ Len(fn_call.data.rows) = 3
    /\ \E r \in RowSet(fn_call.data) : HeartHigh(r) /\ ~StepsLow(r) /\ ~SleepLow(r)
    /\ \E r \in RowSet(fn_call.data) : ~HeartHigh(r) /\ StepsLow(r) /\ ~SleepLow(r)
    /\ \E r \in RowSet(fn_call.data) : ~HeartHigh(r) /\ ~StepsLow(r) /\ SleepLow(r)
    /\ fn_ret.list = <<HeartAdvisory, StepsAdvisory, SleepAdvisory>>

\* C3: on a frame with zero rows detect_anomalies returns a frame with zero
\* rows and provide_recommendations returns exactly the fallback sentence;
\* neither raises.
C3_EmptyInputs ==
    (fn_ret.done /\ Len(fn_call.data.rows) = 0) =>
        /\ fn_call.fn = "detect_anomalies" =>
              ~fn_ret.raised /\ Len(fn_ret.frame.rows) = 0
        /\ fn_call.fn = "provide_recommendations" =>
              ~fn_ret.raised /\ fn_ret.list = <<Fallback>>

C3_Witness ==
    /\ RecommendReturned
    /\ Len(fn_call.data.rows) = 0
    /\ Len(fn_ret.list) = 1

Offered == "download_button" \in Elems(screen)
Stages == <<"detect_anomalies", "provide_recommendations", "plot_data", "create_pdf_report">>

\* C4: when the loaded table lacks a required column the run shows the schema
\* error, calls none of the four functions and offers no document; the column
\* check is evaluated at most once in a run, exactly once in a run that loaded
\* a table, and before any of the four functions is called.
C4_SchemaErrorStopsRun ==
    /\ checks <= 1
    /\ calls # <<>> => (checks = 1 /\ required_columns \subseteq file.columns)
    /\ ("preview" \in Elems(screen) /\ pc # "check_columns") => checks = 1
    /\ (checks = 1 /\ ~(required_columns \subseteq file.columns)) =>
          /\ screen = <<"preview", "error">>
          /\ calls = <<>>
          /\ ~Offered
          /\ pdf_buf = <<>>
          /\ pc = "wait"

\* A run on a file that lacks only the sleep column has shown the error.
C4_Witness ==
    /\ file.columns = required_columns \ {"Sleep Duration (hours)"}
    /\ Len(file.rows) = 1
    /\ checks = 1
    /\ "error" \in Elems(screen)

FileRows == Elems(file.rows)

\* C5: the list the script gets from provide_recommendations(detect_anomalies(data))
\* has 1 to 3 entries; it is the single fallback sentence when no row of the
\* dataset violates a threshold, otherwise it holds the advisory of a predicate
\* exactly when some row of the full dataset satisfies it and no fallback.  A
\* dataset whose only row has steps 500, heart rate 72, sleep 7 gives exactly
\* the steps advisory.
C5_PipelineAdvisories ==
    "provide_recommendations" \in Elems(calls) =>
        /\ Len(recommendations) \in 1..3
        /\ (\A r \in FileRows : ~Violating(r)) => recommendations = <<Fallback>>
        /\ (\E r \in FileRows : Violating(r)) =>
              /\ Fallback \notin Elems(recommendations)
              /\ (HeartAdvisory \in Elems(recommendations)) <=> (\E r \in FileRows : HeartHigh(r))
              /\ (StepsAdvisory \in Elems(recommendations)) <=> (\E r \in FileRows : StepsLow(r))
              /\ (SleepAdvisory \in Elems(recommendations)) <=> (\E r \in FileRows : SleepLow(r))
        /\ file.rows = <<CsvRow(1, 500, 72, 1800, 7)>> => recommendations = <<StepsAdvisory>>

\* Only the sleep threshold is violated, and by one of two rows.
C5_Witness ==
    /\ "provide_recommendations" \in Elems(calls)
    /\ Len(file.rows) = 2
    /\ \E r \in FileRows : SleepLow(r)
    /\ \E r \in FileRows : ~Violating(r)
    /\ \A r \in FileRows : ~HeartHigh(r) /\ ~StepsLow(r)
    /\ recommendations = <<SleepAdvisory>>

IsPrefix(a, b) == Len(a) <= Len(b) /\ \A i \in 1..Len(a) : a[i] = b[i]

\* C6: in a run the four functions are called at most once each, in the order
\* detect, recommend, plot, create; a document is offered only when all four
\* have returned in this run; after an exception no further function is called
\* in the run and no document is offered.
C6_State ==
    /\ IsPrefix(calls, Stages)
    /\ Offered => (calls = Stages /\ pdf_buf # <<>> /\ "exception" \notin Elems(screen))
    /\ "exception" \in Elems(screen) => (pc = "wait" /\ ~Offered)

C6_Step ==
    "exception" \in Elems(screen) => (calls' = calls \/ (calls' = <<>> /\ screen' = <<>>))

C6_SingleAttemptAllOrNothing == []C6_State /\ [][C6_Step]_vars

\* A run aborted in the last stage, after the first three had shown results.
C6_Witness ==
    /\ calls = Stages
    /\ "exception" \in Elems(screen)
    /\ "recommendations" \in Elems(screen)
    /\ pdf_buf = <<>>

\* C7: create_pdf_report lays out: the title with name and age; the "Data
\* Summary" heading; the "Anomalies Detected" heading; one table of the header
\* row followed by one row per record of the subset, in order; the
\* "Recommendations" heading; one bulleted paragraph per advisory, in order;
\* the chart image last.
C7_ReportLayout ==
    CreatePdfReturned =>
        LET e == fn_ret.list
            n == Len(fn_call.data.rows)
            m == Len(fn_call.recommendations)
        IN /\ Len(e) = 6 + m
           /\ e[1] = <<"Paragraph",
                       "Health Report for " \o fn_call.name \o ", Age: " \o ToString(fn_call.age),
                       "Title">>
           /\ e[2][1] = "Paragraph" /\ e[2][2] = "Data Summary:"
           /\ e[3][1] = "Paragraph" /\ e[3][2] = "Anomalies Detected:"
           /\ e[4][1] = "Table"
           /\ Len(e[4][2]) = 1 + n
           /\ e[4][2][1] = <<"Date", "Steps", "Heart Rate (bpm)", "Calories Burned",
                            "Sleep Duration (hours)">>
           /\ \A i \in 1..n :
                 LET r == fn_call.data.rows[i] IN
                 e[4][2][1 + i] = << r["Date"], r["Steps"], r["Heart Rate (bpm)"],
                                     r["Calories Burned"], r["Sleep Duration (hours)"] >>
           /\ e[5][1] = "Paragraph" /\ e[5][2] = "Recommendations:"
           /\ \A j \in 1..m :
                 e[5 + j][1] = "Paragraph" /\ e[5 + j][2] = "- " \o fn_call.recommendations[j]
           /\ e[6 + m][1] = "Image"
           /\ \A k \in 1..(5 + m) : e[k][1] # "Image"

\* Two different records and two different advisories.
C7_Witness ==
    /\ CreatePdfReturned
    /\ Len(fn_call.data.rows) = 2
    /\ fn_call.data.rows[1]["Steps"] # fn_call.data.rows[2]["Steps"]
    /\ fn_call.recommendations = <<StepsAdvisory, HeartAdvisory>>
    /\ Len(fn_ret.list) = 8

TableRowCount(pdf) == Len(pdf[4][2])
AdvisoryCount(pdf) == Cardinality({k \in 1..Len(pdf) : pdf[k][1] = "Paragraph" /\ pdf[k][3] = "Normal"})

\* C8: a run on the same file, name and age as an earlier run that offered a
\* report gets the same anomaly subset, the same advisory list, the same chart
\* and a document with the same table row count and advisory count; pyplot's
\* figures left by earlier runs do not change it.
C8_RerunSameResult ==
    prev # <<>> =>
        /\ "detect_anomalies" \in Elems(calls) => anomalies = prev[1].anomalies
        /\ "provide_recommendations" \in Elems(calls) =>
              recommendations = prev[1].recommendations
        /\ "plot_data" \in Elems(calls) => plot_image_buf = prev[1].plot_image_buf
        /\ pdf_buf # <<>> =>
              /\ TableRowCount(pdf_buf) = TableRowCount(prev[1].pdf_buf)
              /\ AdvisoryCount(pdf_buf) = AdvisoryCount(prev[1].pdf_buf)

\* The second run has built its document while the figure of the first run
\* is still open.
C8_Witness ==
    /\ prev # <<>>
    /\ runs = 2
    /\ pc = "download"
    /\ Len(figures) = 2
    /\ Len(anomalies.rows) = 1
    /\ Len(data.rows) = 2

\* C9: the output of detect_anomalies is a subsequence of its input: the
\* labels of the returned rows increase strictly, each returned row is the
\* input row of that label, and there are as many returned rows as violating
\* input positions, so a row violating several predicates is returned once
\* and rows with equal dates are returned separately.
C9_DetectSubsequence ==
    DetectReturned =>
        LET inp == fn_call.data.rows
            out == fn_ret.frame.rows
        IN /\ \A i, j \in 1..Len(out) : i < j => out[i]["index"] < out[j]["index"]
           /\ \A i \in 1..Len(out) :
                 /\ out[i]["index"] + 1 \in 1..Len(inp)
                 /\ out[i] = inp[out[i]["index"] + 1]
           /\ Len(out) = Cardinality({i \in 1..Len(inp) : Violating(inp[i])})

\* Two rows with the same date and the same values, each violating all three
\* predicates, are both returned.
C9_Witness ==
    /\ DetectReturned
    /\ Len(fn_call.data.rows) = 2
    /\ \A i \in 1..2 : LET r == fn_call.data.rows[i] IN
          r["Date"] = 1 /\ HeartHigh(r) /\ StepsLow(r) /\ SleepLow(r)
    /\ Len(fn_ret.frame.rows) = 2

\* C10: the dataset is the frame read from the file throughout the run, also
\* after each of the four functions, and the chart is drawn from every row of
\* the file, not from the anomaly subset.
C10_DatasetUnchanged ==
    /\ data = loaded
    /\ "preview" \in Elems(screen) =>
          /\ Len(data.rows) = Len(file.rows)
          /\ \A i \in 1..Len(file.rows) :
                /\ data.rows[i]["index"] = i - 1
                /\ \A col \in file.columns : data.rows[i][col] = file.rows[i][col]
    /\ "plot_data" \in Elems(calls) =>
          LET ax == plot_image_buf.png
              cols == <<"Steps", "Heart Rate (bpm)", "Calories Burned", "Sleep Duration (hours)">>
          IN /\ Len(ax) = 4
             /\ \A k \in 1..4 :
                   /\ Len(ax[k].lines) = 1
                   /\ ax[k].lines[1].x = [i \in 1..Len(file.rows) |-> file.rows[i]["Date"]]
                   /\ ax[k].lines[1].y = [i \in 1..Len(file.rows) |-> file.rows[i][cols[k]]]

\* The chart has been drawn after detection kept one of two rows.
C10_Witness ==
    /\ pc = "create_pdf"
    /\ Len(file.rows) = 2
    /\ Len(anomalies.rows) = 1
    /\ Len(plot_image_buf.png[1].lines[1].y) = 2

====
